---------------------------- MODULE Spec2Model ----------------------------
(***************************************************************************)
(* A model of django-simple-accounting: the account tree                   *)
(* (simple_accounting/models.py: AccountSystem, Account), path resolution  *)
(* (accounting/utils.py: get_account_from_path), the flow / split /        *)
(* transaction / ledger-entry records and the four register_* posting      *)
(* functions (simple_accounting/utils.py).                                 *)
(*                                                                         *)
(* Conventions.                                                            *)
(*  - A table of the database is a sequence of rows; a row's primary key   *)
(*    is its index.  0 stands for Python's None.                           *)
(*  - A Python string is a sequence of one-character strings.              *)
(*  - A call returns a record whose "status" is "ok" or the name of the    *)
(*    exception that left the call.  An exception that the code does not   *)
(*    catch leaves every row written before it in place: the code opens no *)
(*    database transaction.                                                *)
(*  - simple_accounting/models.py imports get_account_from_path from       *)
(*    simple_accounting.utils; the only definition in the repository is    *)
(*    the one of accounting/utils.py, which is the one modelled.           *)
(*  - An account's kind is the basic type of its AccountType.              *)
(*  - A row that is deleted keeps its place in its table, so that primary  *)
(*    keys stay indices: a deleted ledger entry has transaction 0, a       *)
(*    deleted transaction has pk 0.                                        *)
(*  - A CashFlow or Split instance that a call is given is an instance     *)
(*    built by its constructor and not saved (pk = 0): no save() of a      *)
(*    CashFlow returns.                                                    *)
(***************************************************************************)
EXTENDS Integers, Sequences, FiniteSets, TLC

VARIABLES
    accounts,      \* table Account: [system, parent, name, kind, is_placeholder]
    rootCache,     \* per AccountSystem object: its _root attribute (0: unset)
    cashflows,     \* table CashFlow: [account, amount]
    splits,        \* table Split: [exit_point, entry_point, target]
    transactions,  \* table Transaction: [source, split_set, is_confirmed]
    entries,       \* table LedgerEntry: [account, transaction, entry_id, amount]
    balanceCache,  \* per Account object: its _balance attribute
    saving,        \* per process: the LedgerEntry instance whose save() it runs
    last           \* the last call: its operation, arguments and outcome

vars == <<accounts, rootCache, cashflows, splits, transactions, entries,
          balanceCache, saving, last>>

(***************************************************************************)
(* Bounds of the model.                                                    *)
(***************************************************************************)
MaxAccounts == 3
MaxAmount == 1
MaxTransactions == 2
MaxEntries == 5

Systems == {"s1", "s2"}
\* the processes that run requests on the same database
Procs == {1, 2}
Amounts == (0 - MaxAmount)..MaxAmount
\* an attribute of an object: not set yet, or set to a value
Unset == [set |-> FALSE, value |-> 0]
SetTo(v) == [set |-> TRUE, value |-> v]

(***************************************************************************)
(* Python strings.                                                         *)
(***************************************************************************)
ACCOUNT_PATH_SEPARATOR == "/"

\* str.strip(): leading and trailing whitespace removed
RECURSIVE lstrip(_)
lstrip(s) == IF s # <<>> /\ Head(s) = " " THEN lstrip(Tail(s)) ELSE s

RECURSIVE rstrip(_)
rstrip(s) ==
    IF s # <<>> /\ s[Len(s)] = " " THEN rstrip(SubSeq(s, 1, Len(s) - 1)) ELSE s

strip(s) == rstrip(lstrip(s))

\* str.split(sep): "" gives [""], "/" gives ["", ""], "/a" gives ["", "a"]
RECURSIVE split(_, _)
split(s, sep) ==
    IF s = <<>> THEN << <<>> >>
    ELSE IF Head(s) = sep THEN << <<>> >> \o split(Tail(s), sep)
    ELSE LET rest == split(Tail(s), sep)
         IN  << <<Head(s)>> \o Head(rest) >> \o Tail(rest)

\* sep.join(components)
RECURSIVE join(_, _)
join(comps, sep) ==
    IF comps = <<>> THEN <<>>
    ELSE IF Len(comps) = 1 THEN Head(comps)
    ELSE Head(comps) \o <<sep>> \o join(Tail(comps), sep)

startswith(s, c) == s # <<>> /\ Head(s) = c
endswith(s, c) == s # <<>> /\ s[Len(s)] = c

(***************************************************************************)
(* Account types (AccountType) and the Account model.                      *)
(***************************************************************************)
Kinds == {"ROOT", "INCOME", "EXPENSE", "ASSET", "LIABILITY"}

kind_is_stock(k) == k \in {"ASSET", "LIABILITY"}
kind_is_flux(k) == k \in {"INCOME", "EXPENSE"}

Ok(v) == [status |-> "ok", value |-> v]
Raise(e) == [status |-> e, value |-> 0]

is_stock(acc) == kind_is_stock(acc.kind)
is_flux(acc) == kind_is_flux(acc.kind)
is_root(acc) == acc.parent = 0

\* A clean() of Account that would check the parent's type for stock-like
\* accounts only
Account_clean_stock_only(acc, accts) ==
    IF acc.parent # 0 /\ acc.system # accts[acc.parent].system
    THEN "ValidationError"
    ELSE IF is_stock(acc) /\ acc.parent = 0 THEN "AttributeError"
    ELSE IF is_stock(acc)
            /\ ~(is_stock(accts[acc.parent]) \/ is_root(accts[acc.parent]))
    THEN "ValidationError"
    ELSE IF is_root(acc) /\ acc.name # <<>> THEN "ValidationError"
    ELSE IF acc.name = <<>> /\ ~is_root(acc) THEN "ValidationError"
    ELSE IF \E i \in 1..Len(acc.name) : acc.name[i] = ACCOUNT_PATH_SEPARATOR
    THEN "ValidationError"
    ELSE "ok"

\* Account.clean(): the status of the validation of the instance acc
Account_clean(acc, accts) ==
    IF acc.parent # 0 /\ acc.system # accts[acc.parent].system
    THEN "ValidationError"
    ELSE IF is_stock(acc) /\ acc.parent = 0
    THEN "AttributeError"            \* self.parent.is_stock with parent None
    ELSE IF is_stock(acc)
            /\ ~(is_stock(accts[acc.parent]) \/ is_root(accts[acc.parent]))
    THEN "ValidationError"
    ELSE IF is_flux(acc) /\ acc.parent = 0
    THEN "AttributeError"            \* self.parent.is_flux with parent None
    ELSE IF is_flux(acc)
            /\ ~(is_flux(accts[acc.parent]) \/ is_root(accts[acc.parent]))
    THEN "ValidationError"
    ELSE IF is_root(acc) /\ acc.name # <<>>
    THEN "ValidationError"
    ELSE IF acc.name = <<>> /\ ~is_root(acc)
    THEN "ValidationError"
    ELSE IF \E i \in 1..Len(acc.name) : acc.name[i] = ACCOUNT_PATH_SEPARATOR
    THEN "ValidationError"
    ELSE "ok"

\* Meta.unique_together = ('parent', 'name'), as full_clean() checks it: the
\* check is skipped for a row one of whose values is None (no parent)
Account_validate_unique(acc, pk, accts) ==
    IF acc.parent # 0
       /\ \E i \in 1..Len(accts) :
             i # pk /\ accts[i].parent = acc.parent /\ accts[i].name = acc.name
    THEN "ValidationError"
    ELSE "ok"

\* Account.save(): full_clean(), then the row is inserted (pk = 0) or updated.
\* The result's value is the row's primary key; tbl is the table afterwards.
Account_save(acc, pk, accts) ==
    LET c == Account_clean(acc, accts)
        u == Account_validate_unique(acc, pk, accts)
    IN  IF c # "ok" THEN [status |-> c, value |-> 0, tbl |-> accts]
        ELSE IF u # "ok" THEN [status |-> u, value |-> 0, tbl |-> accts]
        ELSE IF pk = 0
        THEN [status |-> "ok", value |-> Len(accts) + 1, tbl |-> Append(accts, acc)]
        ELSE [status |-> "ok", value |-> pk, tbl |-> [accts EXCEPT ![pk] = acc]]

\* Account.get_child(name): Account.objects.get(parent=self, name=name)
get_child(self, name, accts) ==
    LET found == {i \in 1..Len(accts) :
                     accts[i].parent = self /\ accts[i].name = name}
    IN  IF found = {} THEN Raise("DoesNotExist")
        ELSE IF Cardinality(found) > 1 THEN Raise("MultipleObjectsReturned")
        ELSE Ok(CHOOSE i \in found : TRUE)

\* Account.path: the recursion calls the property object Account.path, which
\* is not callable, so every account but a root raises TypeError
Account_path(a, accts) ==
    IF is_root(accts[a]) THEN Ok(<<ACCOUNT_PATH_SEPARATOR>>)
    ELSE Raise("TypeError")

(***************************************************************************)
(* Path resolution.                                                        *)
(***************************************************************************)
validate_account_path(path) ==
    IF ~startswith(path, ACCOUNT_PATH_SEPARATOR) THEN "ValueError"
    ELSE IF endswith(path, ACCOUNT_PATH_SEPARATOR) /\ Len(path) > 1
    THEN "ValueError"
    ELSE "ok"

\* get_account_from_path(path, root).  The recursive call's result is not
\* returned: a path of two or more components that resolves yields None.
RECURSIVE get_account_from_path(_, _, _)
get_account_from_path(path0, root, accts) ==
    LET path == strip(path0)
        path_components == split(path, ACCOUNT_PATH_SEPARATOR)
        corner == is_root(accts[root])
        v == IF corner THEN validate_account_path(path) ELSE "ok"
    IN  IF v # "ok" THEN Raise(v)
        ELSE IF corner /\ path = <<ACCOUNT_PATH_SEPARATOR>> THEN Ok(root)
        ELSE LET comps == IF corner THEN Tail(path_components)
                          ELSE path_components
                 child == get_child(root, comps[1], accts)
             IN  IF child.status # "ok" THEN child
                 ELSE IF Len(comps) = 1 THEN child
                 ELSE LET sub == get_account_from_path(
                                     join(Tail(comps), ACCOUNT_PATH_SEPARATOR),
                                     child.value, accts)
                      IN  IF sub.status # "ok" THEN sub ELSE Ok(0)

(***************************************************************************)
(* AccountSystem.                                                          *)
(***************************************************************************)
RootsOf(s, accts) ==
    {i \in 1..Len(accts) : accts[i].system = s /\ is_root(accts[i])}

\* AccountSystem.root on the system object whose _root is cache.  With _root
\* unset the loop stores a parentless account r (0: none found) and the
\* raise after the loop is reached in either case.
AccountSystem_root(cache, r) ==
    IF cache = 0
    THEN [status |-> "MalformedAccountTree", value |-> 0, cache |-> r]
    ELSE [status |-> "ok", value |-> cache, cache |-> cache]

\* The accounts the loop of AccountSystem.root may leave in _root: the query
\* set is unordered, so with several parentless accounts any may come last
RootChoices(s, accts) ==
    IF RootsOf(s, accts) = {} THEN {0} ELSE RootsOf(s, accts)

\* AccountSystem.__getitem__(path)
AccountSystem_getitem(cache, r, path, accts) ==
    LET root == AccountSystem_root(cache, r)
    IN  IF root.status # "ok"
        THEN [status |-> root.status, value |-> 0, cache |-> root.cache]
        ELSE LET g == get_account_from_path(path, root.value, accts)
             IN  [status |-> g.status, value |-> g.value, cache |-> root.cache]

NewAccount(s, parent, name, kind, ph) ==
    [system |-> s, parent |-> parent, name |-> name, kind |-> kind,
     is_placeholder |-> ph]

(***************************************************************************)
(* CashFlow, Split, Transaction, LedgerEntry.  st is the posting part of   *)
(* the database: [cashflows, splits, transactions, entries].  A model      *)
(* instance is its fields with pk, the primary key of its row (0: the      *)
(* instance is not saved).                                                 *)
(***************************************************************************)
CashFlowOf(pk, account, amount) ==
    [pk |-> pk, account |-> account, amount |-> amount]
SplitOf(pk, exit_point, entry_point, target) ==
    [pk |-> pk, exit_point |-> exit_point, entry_point |-> entry_point,
     target |-> target]

Result(status, value, st) == [status |-> status, value |-> value, st |-> st]

\* CashFlow.clean(): it reads self.is_stock, and CashFlow defines no such
\* attribute (is_stock is the account's), so the read raises AttributeError
CashFlow_clean(cf, accts) == "AttributeError"

\* A save() of CashFlow that would insert the row without full_clean()
CashFlow_save_unchecked(cf, st, accts) ==
    Result("ok", Len(st.cashflows) + 1,
           [st EXCEPT !.cashflows =
               Append(@, [cf EXCEPT !.pk = Len(st.cashflows) + 1])])

\* CashFlow.save(), as CashFlow.objects.create(account=, amount=) calls it
CashFlow_save(cf, st, accts) ==
    LET c == CashFlow_clean(cf, accts)
        pk == Len(st.cashflows) + 1
    IN  IF c # "ok" THEN Result(c, 0, st)
        ELSE Result("ok", pk,
                    [st EXCEPT !.cashflows = Append(@, [cf EXCEPT !.pk = pk])])

\* Split.clean()
Split_clean(sp, accts) ==
    IF sp.exit_point = 0 /\ sp.entry_point # 0 THEN "ValidationError"
    ELSE IF sp.entry_point = 0
    THEN "AttributeError"            \* self.entry_point.is_flux with None
    ELSE IF ~is_flux(accts[sp.entry_point]) THEN "ValidationError"
    ELSE IF sp.exit_point = 0
    THEN "AttributeError"            \* self.exit_point.is_flux with None
    ELSE IF ~is_flux(accts[sp.exit_point]) THEN "ValidationError"
    ELSE IF ~is_stock(accts[sp.target.account]) THEN "ValidationError"
    ELSE IF accts[sp.entry_point].system # accts[sp.target.account].system
    THEN "ValidationError"
    ELSE "ok"

\* Split.save(), as Split.objects.create(exit_point=, entry_point=, target=)
\* calls it.  full_clean() also validates the fields: a target flow that is
\* not saved leaves the target null, which is a validation error raised
\* once clean() has returned.
Split_save(sp, st, accts) ==
    LET c == Split_clean(sp, accts)
        pk == Len(st.splits) + 1
    IN  IF c # "ok" THEN Result(c, 0, st)
        ELSE IF sp.target.pk = 0 THEN Result("ValidationError", 0, st)
        ELSE Result("ok", pk,
                    [st EXCEPT !.splits = Append(@, [sp EXCEPT !.pk = pk])])

RECURSIVE SumAmounts(_)
SumAmounts(flows) ==
    IF flows = <<>> THEN 0 ELSE Head(flows).amount + SumAmounts(Tail(flows))

Targets(split_set) == [i \in 1..Len(split_set) |-> split_set[i].target]

\* Split.is_internal, Split.amount
Split_is_internal(sp) == sp.exit_point = 0
Split_amount(sp) == 0 - sp.target.amount

\* Transaction.is_split, is_internal, is_simple over the transaction's splits
Transaction_is_split(split_set) == Len(split_set) > 1
Transaction_is_internal(split_set) ==
    \A i \in 1..Len(split_set) : Split_is_internal(split_set[i])
Transaction_is_simple(split_set) ==
    Transaction_is_internal(split_set) /\ ~Transaction_is_split(split_set)

\* The loop of Transaction.clean() over the exit points, in order:
\* split.exit_point.system raises AttributeError for a null exit point
RECURSIVE ExitPointsCheck(_, _, _)
ExitPointsCheck(split_set, source, accts) ==
    IF split_set = <<>> THEN "ok"
    ELSE IF Head(split_set).exit_point = 0 THEN "AttributeError"
    ELSE IF accts[Head(split_set).exit_point].system # accts[source.account].system
    THEN "ValidationError"
    ELSE ExitPointsCheck(Tail(split_set), source, accts)

\* Transaction.clean() of a transaction with the given source and splits.
\* Its last check reads account.placeholder of the source account first; the
\* field is is_placeholder, so a transaction that passes the checks before
\* it raises AttributeError there.
Transaction_clean(source, split_set, accts) ==
    IF SumAmounts(<<source>> \o Targets(split_set)) # 0 THEN "ValidationError"
    ELSE IF ExitPointsCheck(split_set, source, accts) # "ok"
    THEN ExitPointsCheck(split_set, source, accts)
    ELSE IF Transaction_is_internal(split_set)
            /\ \E i \in 1..Len(split_set) :
                  accts[split_set[i].target.account].system
                     # accts[source.account].system
    THEN "ValidationError"
    ELSE "AttributeError"

\* A save() of Transaction that would insert the row without full_clean()
Transaction_save_unchecked(tx, st, accts) ==
    Result("ok", Len(st.transactions) + 1,
           [st EXCEPT !.transactions =
               Append(@, [tx EXCEPT !.pk = Len(st.transactions) + 1])])

\* Transaction.save() of the instance tx: full_clean(), then the row is
\* inserted (tx.pk = 0) or updated.  clean() starts by reading self.splits,
\* which is self.split_set.all(): for an instance without a primary key the
\* many-to-many manager cannot be built and the read raises ValueError.
Transaction_save(tx, st, accts) ==
    LET c == IF tx.pk = 0 THEN "ValueError"
             ELSE Transaction_clean(tx.source, tx.split_set, accts)
        pk == Len(st.transactions) + 1
    IN  IF c # "ok" THEN Result(c, 0, st)
        ELSE IF tx.pk = 0
        THEN Result("ok", pk,
                    [st EXCEPT !.transactions = Append(@, [tx EXCEPT !.pk = pk])])
        ELSE Result("ok", tx.pk, [st EXCEPT !.transactions[tx.pk] = tx])

\* A new Transaction() with its source set: it has no primary key and no
\* split yet
NewTransaction(source) ==
    [pk |-> 0, source |-> source, split_set |-> <<>>, is_confirmed |-> FALSE]

\* transaction.split_set = splits
SetSplits(t, split_set, st) == [st EXCEPT !.transactions[t].split_set = split_set]

\* account.ledger_entries: the rows of the account's ledger
ledger_entries(a, ents) ==
    {i \in 1..Len(ents) : ents[i].account = a /\ ents[i].transaction # 0}

SetMax(S) == CHOOSE x \in S : \A y \in S : y <= x

\* LedgerEntry.next_entry_id_for_ledger(): max() of the primary keys
\* (entry.id) of the account's entries, plus one; max() of an empty list
\* raises ValueError
next_entry_id_for_ledger(a, ents) ==
    IF ledger_entries(a, ents) = {} THEN Raise("ValueError")
    ELSE Ok(SetMax({ents[i].id : i \in ledger_entries(a, ents)}) + 1)

\* LedgerEntry.save() of a new entry, as LedgerEntry.objects.create(account=,
\* transaction=, amount=) calls it
LedgerEntry_save(a, t, amount, st) ==
    LET n == next_entry_id_for_ledger(a, st.entries)
        pk == Len(st.entries) + 1
    IN  IF n.status # "ok" THEN Result(n.status, 0, st)
        ELSE Result("ok", pk,
                    [st EXCEPT !.entries =
                        Append(@, [id |-> pk, account |-> a, transaction |-> t,
                                   entry_id |-> n.value, amount |-> amount])])

\* Account.balance on the account object whose _balance is cache: the sum is
\* taken again only if _balance is unset or zero
LedgerSum(a, ents) ==
    SumAmounts([i \in 1..Len(ents) |->
                   [amount |-> IF i \in ledger_entries(a, ents)
                               THEN ents[i].amount ELSE 0]])

Account_balance(a, cache, ents) ==
    IF ~cache.set \/ cache.value = 0 THEN LedgerSum(a, ents) ELSE cache.value

(***************************************************************************)
(* The posting functions of simple_accounting/utils.py.                    *)
(***************************************************************************)
\* except ValidationError, e: the handler builds its message with _(...), a
\* name utils.py neither defines nor imports, so NameError leaves the call
\* in place of MalformedTransaction; any other exception is not caught
OnError(status) == IF status = "ValidationError" THEN "NameError" ELSE status

\* A ledger entry to write, or the exception the statement computing it raises
Write(account, amount) == [account |-> account, amount |-> amount, raises |-> "ok"]
Raises(e) == [account |-> 0, amount |-> 0, raises |-> e]

RECURSIVE WriteEntries(_, _, _)
WriteEntries(writes, t, st) ==
    IF writes = <<>> THEN Result("ok", t, st)
    ELSE IF Head(writes).raises # "ok" THEN Result(Head(writes).raises, 0, st)
    ELSE LET w == LedgerEntry_save(Head(writes).account, t, Head(writes).amount, st)
         IN  IF w.status # "ok" THEN Result(w.status, 0, w.st)
             ELSE WriteEntries(Tail(writes), t, w.st)

\* the sign of the entry of an exit point and of an entry point
ExitSign(acc) == IF acc.kind = "EXPENSE" THEN 1 ELSE 0 - 1
EntrySign(acc) == IF acc.kind = "INCOME" THEN 1 ELSE 0 - 1

\* the ledger entries register_split_transaction writes for one split
SplitWrites(sp, accts) ==
    (IF sp.exit_point # 0
     THEN << Write(sp.exit_point,
                   ExitSign(accts[sp.exit_point]) * Split_amount(sp)),
             IF sp.entry_point = 0 THEN Raises("AttributeError")
             ELSE Write(sp.entry_point,
                        EntrySign(accts[sp.entry_point]) * Split_amount(sp)) >>
     ELSE <<>>)
    \o << Write(sp.target.account, Split_amount(sp)) >>

RECURSIVE AllSplitWrites(_, _)
AllSplitWrites(split_set, accts) ==
    IF split_set = <<>> THEN <<>>
    ELSE SplitWrites(Head(split_set), accts) \o AllSplitWrites(Tail(split_set), accts)

register_split_transaction(source, split_set, st, accts) ==
    LET t == Transaction_save(NewTransaction(source), st, accts)
    IN  IF t.status # "ok" THEN Result(OnError(t.status), 0, t.st)
        ELSE WriteEntries(
                 << Write(source.account, 0 - source.amount) >>
                     \o AllSplitWrites(split_set, accts),
                 t.value, SetSplits(t.value, split_set, t.st))

register_transaction(source_account, exit_point, entry_point, target_account, amount, st, accts) ==
    LET source == CashFlow_save(CashFlowOf(0, source_account, amount), st, accts)
        src == CashFlowOf(source.value, source_account, amount)
        t == Transaction_save(NewTransaction(src), source.st, accts)
        target == CashFlow_save(CashFlowOf(0, target_account, 0 - amount), t.st, accts)
        tgt == CashFlowOf(target.value, target_account, 0 - amount)
        newsplit == Split_save(SplitOf(0, exit_point, entry_point, tgt), target.st, accts)
        sp == SplitOf(newsplit.value, exit_point, entry_point, tgt)
    IN  IF source.status # "ok" THEN Result(OnError(source.status), 0, source.st)
        ELSE IF t.status # "ok" THEN Result(OnError(t.status), 0, t.st)
        ELSE IF target.status # "ok" THEN Result(OnError(target.status), 0, target.st)
        ELSE IF newsplit.status # "ok" THEN Result(OnError(newsplit.status), 0, newsplit.st)
        ELSE WriteEntries(
                 << Write(source_account, 0 - amount),
                    IF exit_point = 0 THEN Raises("AttributeError")
                    ELSE Write(exit_point, ExitSign(accts[exit_point]) * amount),
                    IF entry_point = 0 THEN Raises("AttributeError")
                    ELSE Write(entry_point, EntrySign(accts[entry_point]) * amount),
                    Write(target_account, amount) >>,
                 t.value, SetSplits(t.value, <<sp>>, newsplit.st))

\* the loop of register_internal_transaction that creates one internal split
\* per target; value is the list of the splits created
RECURSIVE InternalSplits(_, _, _)
InternalSplits(targets, st, accts) ==
    IF targets = <<>> THEN Result("ok", <<>>, st)
    ELSE LET newsplit == Split_save(SplitOf(0, 0, 0, Head(targets)), st, accts)
             rest == InternalSplits(Tail(targets), newsplit.st, accts)
         IN  IF newsplit.status # "ok" THEN Result(newsplit.status, <<>>, newsplit.st)
             ELSE IF rest.status # "ok" THEN rest
             ELSE Result("ok",
                         <<SplitOf(newsplit.value, 0, 0, Head(targets))>> \o rest.value,
                         rest.st)

register_internal_transaction(source, targets, st, accts) ==
    LET t == Transaction_save(NewTransaction(source), st, accts)
        sps == InternalSplits(targets, t.st, accts)
    IN  IF t.status # "ok" THEN Result(OnError(t.status), 0, t.st)
        ELSE IF sps.status # "ok" THEN Result(OnError(sps.status), 0, sps.st)
        ELSE WriteEntries(
                 << Write(source.account, 0 - source.amount) >>
                     \o [i \in 1..Len(targets) |->
                            Write(targets[i].account, 0 - targets[i].amount)],
                 t.value, SetSplits(t.value, sps.value, sps.st))

register_simple_transaction(source_account, target_account, amount, st, accts) ==
    LET source == CashFlow_save(CashFlowOf(0, source_account, amount), st, accts)
        src == CashFlowOf(source.value, source_account, amount)
        t == Transaction_save(NewTransaction(src), source.st, accts)
        target == CashFlow_save(CashFlowOf(0, target_account, 0 - amount), t.st, accts)
        tgt == CashFlowOf(target.value, target_account, 0 - amount)
        newsplit == Split_save(SplitOf(0, 0, 0, tgt), target.st, accts)
        sp == SplitOf(newsplit.value, 0, 0, tgt)
    IN  IF source.status # "ok" THEN Result(OnError(source.status), 0, source.st)
        ELSE IF t.status # "ok" THEN Result(OnError(t.status), 0, t.st)
        ELSE IF target.status # "ok" THEN Result(OnError(target.status), 0, target.st)
        ELSE IF newsplit.status # "ok" THEN Result(OnError(newsplit.status), 0, newsplit.st)
        ELSE WriteEntries(
                 << Write(source_account, 0 - amount),
                    Write(target_account, amount) >>,
                 t.value, SetSplits(t.value, <<sp>>, newsplit.st))

(***************************************************************************)
(* Calls on the account tree.  Each action is one call; last records it.   *)
(***************************************************************************)
Call(op, status, value, arg) ==
    [op |-> op, status |-> status, value |-> value, arg |-> arg]

PostingUnchanged == UNCHANGED <<cashflows, splits, transactions, entries,
                                balanceCache, saving>>

\* Account.objects.create(system=s, parent=parent, name=name, kind=kind,
\*                        is_placeholder=ph)
ObjectsCreate(s, parent, name, kind, ph) ==
    /\ Len(accounts) < MaxAccounts
    /\ LET r == Account_save(NewAccount(s, parent, name, kind, ph), 0, accounts)
       IN  /\ accounts' = r.tbl
           /\ last' = Call("create", r.status, r.value,
                           NewAccount(s, parent, name, kind, ph))
    /\ UNCHANGED rootCache
    /\ PostingUnchanged

\* Account.add_child(account) on the saved account self; the instance given
\* is the row pk (pk = 0: an instance not saved yet, with the fields of acc)
AddChild(self, pk, acc) ==
    /\ (pk = 0) => Len(accounts) < MaxAccounts
    /\ LET c == get_child(self, acc.name, accounts)
       IN  IF c.status = "DoesNotExist"
           THEN LET r == Account_save([acc EXCEPT !.parent = self], pk, accounts)
                IN  /\ accounts' = r.tbl
                    /\ last' = Call("add_child", r.status, r.value, <<self, pk, acc>>)
           ELSE /\ accounts' = accounts
                /\ last' = Call("add_child",
                                IF c.status = "ok" THEN "ValueError" ELSE c.status,
                                0, <<self, pk, acc>>)
    /\ UNCHANGED rootCache
    /\ PostingUnchanged

\* AccountSystem.add_account(parent_path, name, kind, is_placeholder) on the
\* system object of s
AddAccountCall(op, s, parent_path, name, kind, ph) ==
    /\ Len(accounts) < MaxAccounts
    /\ \E r \in RootChoices(s, accounts) :
         LET g == AccountSystem_getitem(rootCache[s], r, parent_path, accounts)
             sv == Account_save(NewAccount(s, g.value, name, kind, ph), 0, accounts)
         IN  /\ rootCache' = [rootCache EXCEPT ![s] = g.cache]
             /\ IF g.status # "ok"
                THEN /\ accounts' = accounts
                     /\ last' = Call(op, g.status, 0, <<s, parent_path, name, kind>>)
                ELSE /\ accounts' = sv.tbl
                     /\ last' = Call(op, sv.status, sv.value,
                                     <<s, parent_path, name, kind>>)
    /\ PostingUnchanged

AddAccount(s, parent_path, name, kind, ph) ==
    AddAccountCall("add_account", s, parent_path, name, kind, ph)

\* AccountSystem.add_root_account()
AddRootAccount(s) ==
    AddAccountCall("add_root_account", s, <<>>, <<>>, "ROOT", TRUE)

\* AccountSystem.__getitem__(path): system[path]
GetItem(s, path) ==
    /\ \E r \in RootChoices(s, accounts) :
         LET g == AccountSystem_getitem(rootCache[s], r, path, accounts)
         IN  /\ rootCache' = [rootCache EXCEPT ![s] = g.cache]
             /\ last' = Call("getitem", g.status, g.value, <<s, path>>)
    /\ UNCHANGED accounts
    /\ PostingUnchanged

\* system.root
ReadRoot(s) ==
    /\ \E r \in RootChoices(s, accounts) :
         LET root == AccountSystem_root(rootCache[s], r)
         IN  /\ rootCache' = [rootCache EXCEPT ![s] = root.cache]
             /\ last' = Call("root", root.status, root.value, s)
    /\ UNCHANGED accounts
    /\ PostingUnchanged

\* account.path
ReadPath(a) ==
    /\ a \in 1..Len(accounts)
    /\ LET p == Account_path(a, accounts)
       IN  last' = Call("path", p.status, p.value, a)
    /\ UNCHANGED <<accounts, rootCache>>
    /\ PostingUnchanged

(***************************************************************************)
(* SpecPath: one system's tree is built and its paths are read and         *)
(* resolved.                                                               *)
(***************************************************************************)
\* The path strings resolved: the ones of the tests of tree navigation
\* (with a, b for spam, bar) and their neighbours
ProbePaths ==
    { <<>>, <<" ">>, <<"a">>, <<"/">>, <<"/", "a">>, <<"/", "b">>,
      <<"/", "/", "a">>, <<"/", "a", "/">>, <<" ", "/", "a">>,
      <<"/", "a", " ">>, <<"/", "a", "/", "b">>, <<"/", "a", "/", "a">>,
      <<"/", "a", "/", "/", "b">>, <<"/", "/">> }

PathSystems == {"s1"}
PathNames == {<<>>, <<"a">>, <<"b">>}
PathKinds == {"ROOT", "ASSET"}
PathParents == {<<"/">>, <<"/", "a">>, <<"/", "a", "/", "b">>}

NoCall == Call("none", "ok", 0, 0)

\* no process is inside a save() of a ledger entry
NotSaving == [pc |-> "idle", account |-> 0, transaction |-> 0, amount |-> 0,
              entry_id |-> 0]
NoSave == [p \in Procs |-> NotSaving]

InitEmpty ==
    /\ accounts = <<>>
    /\ rootCache = [s \in Systems |-> 0]
    /\ cashflows = <<>>
    /\ splits = <<>>
    /\ transactions = <<>>
    /\ entries = <<>>
    /\ balanceCache = <<>>
    /\ saving = NoSave
    /\ last = NoCall

NextPath ==
    \/ \E s \in PathSystems, p \in 0..Len(accounts), n \in PathNames,
          k \in PathKinds :
          ObjectsCreate(s, p, n, k, k = "ROOT")
    \/ \E self \in 1..Len(accounts), s \in PathSystems, n \in PathNames,
          k \in PathKinds :
          AddChild(self, 0, NewAccount(s, 0, n, k, k = "ROOT"))
    \/ \E s \in PathSystems, pp \in PathParents, n \in PathNames, k \in PathKinds :
          AddAccount(s, pp, n, k, FALSE)
    \/ \E s \in PathSystems : AddRootAccount(s)
    \/ \E s \in PathSystems, path \in ProbePaths : GetItem(s, path)
    \/ \E a \in 1..Len(accounts) : ReadPath(a)
    \/ \E s \in PathSystems : ReadRoot(s)

SpecPath == InitEmpty /\ [][NextPath]_vars

(***************************************************************************)
(* Calls that post.  Each action is one whole call: what it wrote before   *)
(* an exception left it stays written, as the code opens no database       *)
(* transaction.  last.arg is the posting asked for, as a source flow and   *)
(* the list of the splits.                                                 *)
(***************************************************************************)
St == [cashflows |-> cashflows, splits |-> splits,
       transactions |-> transactions, entries |-> entries]

Commit(st) ==
    /\ cashflows' = st.cashflows
    /\ splits' = st.splits
    /\ transactions' = st.transactions
    /\ entries' = st.entries

Posting(source, split_set) == [source |-> source, splits |-> split_set]

TreeUnchanged == UNCHANGED <<accounts, rootCache, saving>>

\* the tables have room for one more posting
PostingRoom ==
    /\ Len(transactions) < MaxTransactions
    /\ Len(cashflows) < 2 * MaxTransactions
    /\ Len(entries) < 4 * MaxTransactions

\* register_split_transaction(source, splits), given instances not saved
RegisterSplitTransaction(source, split_set) ==
    /\ PostingRoom
    /\ LET r == register_split_transaction(source, split_set, St, accounts)
       IN  /\ Commit(r.st)
           /\ last' = Call("register_split_transaction", r.status, r.value,
                           Posting(source, split_set))
    /\ TreeUnchanged
    /\ UNCHANGED balanceCache

\* register_transaction(source_account, exit_point, entry_point,
\*                      target_account, amount)
RegisterTransaction(source_account, exit_point, entry_point, target_account, amount) ==
    /\ PostingRoom
    /\ LET r == register_transaction(source_account, exit_point, entry_point,
                                     target_account, amount, St, accounts)
       IN  /\ Commit(r.st)
           /\ last' = Call("register_transaction", r.status, r.value,
                           Posting(CashFlowOf(0, source_account, amount),
                                   << SplitOf(0, exit_point, entry_point,
                                              CashFlowOf(0, target_account,
                                                         0 - amount)) >>))
    /\ TreeUnchanged
    /\ UNCHANGED balanceCache

\* register_internal_transaction(source, targets), given instances not saved
RegisterInternalTransaction(source, targets) ==
    /\ PostingRoom
    /\ LET r == register_internal_transaction(source, targets, St, accounts)
       IN  /\ Commit(r.st)
           /\ last' = Call("register_internal_transaction", r.status, r.value,
                           Posting(source,
                                   [i \in 1..Len(targets) |->
                                       SplitOf(0, 0, 0, targets[i])]))
    /\ TreeUnchanged
    /\ UNCHANGED balanceCache

\* register_simple_transaction(source_account, target_account, amount)
RegisterSimpleTransaction(source_account, target_account, amount) ==
    /\ PostingRoom
    /\ LET r == register_simple_transaction(source_account, target_account,
                                            amount, St, accounts)
       IN  /\ Commit(r.st)
           /\ last' = Call("register_simple_transaction", r.status, r.value,
                           Posting(CashFlowOf(0, source_account, amount),
                                   << SplitOf(0, 0, 0,
                                              CashFlowOf(0, target_account,
                                                         0 - amount)) >>))
    /\ TreeUnchanged
    /\ UNCHANGED balanceCache

\* CashFlow.objects.create(account=a, amount=amount)
CashFlowCreate(a, amount) ==
    /\ PostingRoom
    /\ LET r == CashFlow_save(CashFlowOf(0, a, amount), St, accounts)
       IN  /\ Commit(r.st)
           /\ last' = Call("cashflow_create", r.status, r.value,
                           CashFlowOf(0, a, amount))
    /\ TreeUnchanged
    /\ UNCHANGED balanceCache

\* Split.objects.create(exit_point=, entry_point=, target=) of the instance sp
SplitCreate(sp) ==
    /\ PostingRoom
    /\ LET r == Split_save(sp, St, accounts)
       IN  /\ Commit(r.st)
           /\ last' = Call("split_create", r.status, r.value, sp)
    /\ TreeUnchanged
    /\ UNCHANGED balanceCache

\* LedgerEntry(account=a).next_entry_id_for_ledger()
NextEntryId(a) ==
    /\ LET n == next_entry_id_for_ledger(a, entries)
       IN  last' = Call("next_entry_id_for_ledger", n.status, n.value, a)
    /\ TreeUnchanged
    /\ UNCHANGED <<cashflows, splits, transactions, entries, balanceCache>>

\* _balance of the account object of a
CacheOf(a) == IF a \in DOMAIN balanceCache THEN balanceCache[a] ELSE Unset

\* account.balance
ReadBalance(a) ==
    /\ LET b == Account_balance(a, CacheOf(a), entries)
       IN  /\ balanceCache' = [x \in DOMAIN balanceCache \cup {a} |->
                                  IF x = a THEN SetTo(b) ELSE balanceCache[x]]
           /\ last' = Call("balance", "ok", b, a)
    /\ TreeUnchanged
    /\ UNCHANGED <<cashflows, splits, transactions, entries>>

\* The caller takes the outcome of its call; the next call starts from there
Idle == last.op = "none"

Return ==
    /\ ~Idle
    /\ last' = NoCall
    /\ UNCHANGED <<accounts, rootCache, cashflows, splits, transactions,
                   entries, balanceCache, saving>>

(***************************************************************************)
(* SpecPost: postings between the accounts of two systems.                 *)
(***************************************************************************)
\* The trees posted to, in the order their accounts are created:
\*    s1: 1 /   2 /w asset    3 /x expense   4 /z expense  5 /g asset, placeholder
\*    s2: 6 /   7 /y income   8 /v income    9 /c asset   10 /m asset
\*       11 /h asset, placeholder
\*    s1: 12 /l liability
PostSetup ==
    << NewAccount("s1", 0, <<>>, "ROOT", TRUE),
       NewAccount("s1", 1, <<"w">>, "ASSET", FALSE),
       NewAccount("s1", 1, <<"x">>, "EXPENSE", FALSE),
       NewAccount("s1", 1, <<"z">>, "EXPENSE", FALSE),
       NewAccount("s1", 1, <<"g">>, "ASSET", TRUE),
       NewAccount("s2", 0, <<>>, "ROOT", TRUE),
       NewAccount("s2", 6, <<"y">>, "INCOME", FALSE),
       NewAccount("s2", 6, <<"v">>, "INCOME", FALSE),
       NewAccount("s2", 6, <<"c">>, "ASSET", FALSE),
       NewAccount("s2", 6, <<"m">>, "ASSET", FALSE),
       NewAccount("s2", 6, <<"h">>, "ASSET", TRUE),
       NewAccount("s1", 1, <<"l">>, "LIABILITY", FALSE) >>

\* Account.objects.create() of each account of the list, in order
RECURSIVE CreateAll(_, _)
CreateAll(accs, accts) ==
    IF accs = <<>> THEN accts
    ELSE CreateAll(Tail(accs), Account_save(Head(accs), 0, accts).tbl)

InitPost ==
    /\ accounts = CreateAll(PostSetup, <<>>)
    /\ Len(accounts) = Len(PostSetup)
    /\ rootCache = [s \in Systems |-> 0]
    /\ cashflows = <<>>
    /\ splits = <<>>
    /\ transactions = <<>>
    /\ entries = <<>>
    /\ balanceCache = <<>>
    /\ saving = NoSave
    /\ last = NoCall

\* The instances and accounts the calls are given
SourceAccounts == {2, 5}
SourceFlows == {CashFlowOf(0, a, m) : a \in SourceAccounts, m \in Amounts}
SplitPoints == { <<0, 0>>, <<3, 7>>, <<4, 8>>, <<3, 0>> }
SplitTargets == {9, 10}
PostSplits ==
    {SplitOf(0, p[1], p[2], CashFlowOf(0, a, m)) :
        p \in SplitPoints, a \in SplitTargets, m \in Amounts}
SplitLists ==
    {<<>>} \cup {<<x>> : x \in PostSplits}
           \cup {<<x, y>> : x \in PostSplits, y \in PostSplits}
ExitPoints == {0, 3, 7}
EntryPoints == {0, 7, 3}
TargetAccounts == {9, 11, 2}
StockAccounts == {2, 9, 10, 11, 3}
InternalSources == {CashFlowOf(0, a, m) : a \in {9, 11}, m \in Amounts}
InternalTargets == {CashFlowOf(0, a, m) : a \in {10, 2}, m \in Amounts}
TargetLists ==
    {<<>>} \cup {<<x>> : x \in InternalTargets}
           \cup {<<x, y>> : x \in InternalTargets, y \in InternalTargets}
BalanceAccounts == {2, 9}
FlowAccounts == {1, 2, 3, 7, 9, 12}
CreatedSplits ==
    {SplitOf(0, x, e, CashFlowOf(0, a, m)) :
        x \in ExitPoints, e \in EntryPoints, a \in {9, 3}, m \in Amounts}

NextPost ==
    \/ /\ Idle
       /\ \E source \in SourceFlows, split_set \in SplitLists :
             RegisterSplitTransaction(source, split_set)
    \/ /\ Idle
       /\ \E sa \in SourceAccounts, xp \in ExitPoints, ep \in EntryPoints,
             ta \in TargetAccounts, m \in Amounts :
             RegisterTransaction(sa, xp, ep, ta, m)
    \/ /\ Idle
       /\ \E source \in InternalSources, targets \in TargetLists :
             RegisterInternalTransaction(source, targets)
    \/ /\ Idle
       /\ \E sa \in StockAccounts, ta \in StockAccounts, m \in Amounts :
             RegisterSimpleTransaction(sa, ta, m)
    \/ /\ Idle
       /\ \E a \in 1..Len(accounts) : NextEntryId(a)
    \/ /\ Idle
       /\ \E a \in BalanceAccounts : ReadBalance(a)
    \/ /\ Idle
       /\ \E a \in FlowAccounts, m \in Amounts : CashFlowCreate(a, m)
    \/ /\ Idle
       /\ \E sp \in CreatedSplits : SplitCreate(sp)
    \/ Return

SpecPost == InitPost /\ [][NextPost]_vars

(***************************************************************************)
(* Properties of the account tree and of path resolution (SpecPath).       *)
(***************************************************************************)
\* the root above account a, and the names on the way down to a
RECURSIVE RootAbove(_)
RootAbove(a) ==
    IF accounts[a].parent = 0 THEN a ELSE RootAbove(accounts[a].parent)

RECURSIVE NamesTo(_)
NamesTo(a) ==
    IF accounts[a].parent = 0 THEN <<>>
    ELSE Append(NamesTo(accounts[a].parent), accounts[a].name)

\* the path string of account a: "/" for a root, "/n1/n2/..." below it
RECURSIVE Slashed(_)
Slashed(names) ==
    IF names = <<>> THEN <<>>
    ELSE <<ACCOUNT_PATH_SEPARATOR>> \o Head(names) \o Slashed(Tail(names))

PathString(a) ==
    IF accounts[a].parent = 0 THEN <<ACCOUNT_PATH_SEPARATOR>>
    ELSE Slashed(NamesTo(a))

\* C9: the path of a root is the separator alone; every account below a root
\* has a path, which is "/n" for the child named n of the root, and
\* resolving that path from its root gives the account back.
C9_PathRoundTrip ==
    \A a \in 1..Len(accounts) :
       LET p == Account_path(a, accounts)
       IN  /\ p.status = "ok"
           /\ p.value = PathString(a)
           /\ get_account_from_path(p.value, RootAbove(a), accounts) = Ok(a)

\* a stripped path string is syntactically invalid: it is empty, does not
\* start with exactly one separator, ends with a separator while longer than
\* the separator, or holds two separators in a row
Malformed(path) ==
    \/ path = <<>>
    \/ path[1] # ACCOUNT_PATH_SEPARATOR
    \/ Len(path) > 1 /\ path[Len(path)] = ACCOUNT_PATH_SEPARATOR
    \/ \E i \in 1..(Len(path) - 1) :
          path[i] = ACCOUNT_PATH_SEPARATOR /\ path[i + 1] = ACCOUNT_PATH_SEPARATOR

\* some account of system s lies at the path
Occupied(s, path) ==
    \E a \in 1..Len(accounts) :
       accounts[a].system = s /\ PathString(a) = path

\* C10: a resolution that found the root of its system fails with ValueError
\* (the malformed-path error) exactly when the stripped path is
\* syntactically invalid, and with DoesNotExist (the not-found error) exactly
\* when the path is well formed and no account lies at it.
C10_ResolveErrors ==
    (last.op = "getitem" /\ last.status # "MalformedAccountTree") =>
       LET s == last.arg[1]
           path == strip(last.arg[2])
       IN  /\ (last.status = "ValueError") <=> Malformed(path)
           /\ (last.status = "DoesNotExist")
                 <=> (~Malformed(path) /\ ~Occupied(s, path))

(***************************************************************************)
(* Properties of the posting functions (SpecPost).                         *)
(***************************************************************************)
RegisterOps ==
    {"register_split_transaction", "register_transaction",
     "register_internal_transaction", "register_simple_transaction"}

Registered == last.op \in RegisterOps

\* the sum of the source flow and of the target flows of a posting
FlowSum(p) == SumAmounts(<<p.source>> \o Targets(p.splits))

\* the accounts of a posting, in every role
PostingAccounts(p) ==
    ({p.source.account}
        \cup {p.splits[i].exit_point : i \in 1..Len(p.splits)}
        \cup {p.splits[i].entry_point : i \in 1..Len(p.splits)}
        \cup {p.splits[i].target.account : i \in 1..Len(p.splits)}) \ {0}

HasPlaceholder(p) == \E a \in PostingAccounts(p) : accounts[a].is_placeholder

\* the ledger entries of transaction t: their rows, and what they say
EntryRows(t) == {i \in 1..Len(entries) : entries[i].transaction = t}
EntryLines(t) ==
    {[account |-> entries[i].account, amount |-> entries[i].amount] :
        i \in EntryRows(t)}
Line(account, amount) == [account |-> account, amount |-> amount]

\* C1: every transaction recorded conserves money (its source amount and the
\* target amounts of its splits sum to zero), and a call whose flows do not
\* sum to zero is rejected and leaves the transactions and the ledger
\* entries as they were.
C1_Conservation ==
    [][ /\ \A t \in 1..Len(transactions') :
              SumAmounts(<<transactions'[t].source>>
                            \o Targets(transactions'[t].split_set)) = 0
        /\ (last'.op \in RegisterOps /\ FlowSum(last'.arg) # 0)
              => /\ last'.status # "ok"
                 /\ transactions' = transactions
                 /\ entries' = entries ]_vars

\* a call with flows that do not sum to zero was made and was rejected
C1_Witness ==
    /\ Registered
    /\ FlowSum(last.arg) # 0
    /\ last.status # "ok"
    /\ transactions = <<>>

\* C2: a register_* call that ends in an error leaves the tables of
\* transactions, cash flows, splits and ledger entries as they were.
C2_CommitOrAbort ==
    [][ (last'.op \in RegisterOps /\ last'.status # "ok")
           => UNCHANGED <<transactions, cashflows, splits, entries>> ]_vars

\* a call with accounts and amounts (it creates its own flows) was rejected
C2_Witness ==
    /\ last.op \in {"register_transaction", "register_simple_transaction"}
    /\ last.status # "ok"
    /\ cashflows = <<>>

\* C3: a register_* call with a placeholder account in any role fails with
\* MalformedTransaction, and no ledger entry is on a placeholder account.
C3_PlaceholderRejected ==
    /\ (Registered /\ HasPlaceholder(last.arg))
          => last.status = "MalformedTransaction"
    /\ \A i \in 1..Len(entries) : ~accounts[entries[i].account].is_placeholder

\* C4: the entry_id computed for the next entry of an account is 1 for an
\* account without entries, and one more than the number of its entries
\* otherwise (the entries of other accounts do not count).
C4_NextEntryId ==
    (last.op = "next_entry_id_for_ledger")
       => /\ last.status = "ok"
          /\ last.value = Cardinality(ledger_entries(last.arg, entries)) + 1

ValidSplitPosting(p) ==
    /\ Len(p.splits) >= 1
    /\ \A i \in 1..Len(p.splits) :
          /\ p.splits[i].exit_point # 0
          /\ p.splits[i].entry_point # 0
          /\ is_flux(accounts[p.splits[i].exit_point])
          /\ is_flux(accounts[p.splits[i].entry_point])
          /\ is_stock(accounts[p.splits[i].target.account])
          /\ accounts[p.splits[i].exit_point].system
                = accounts[p.source.account].system
          /\ accounts[p.splits[i].entry_point].system
                = accounts[p.splits[i].target.account].system
    /\ is_stock(accounts[p.source.account])
    /\ Cardinality(PostingAccounts(p)) = 3 * Len(p.splits) + 1
    /\ ~HasPlaceholder(p)
    /\ FlowSum(p) = 0

\* the entries of one split: exit point, entry point, target
SplitLines(sp) ==
    LET amount == 0 - sp.target.amount
    IN  { Line(sp.exit_point,
               IF accounts[sp.exit_point].kind = "EXPENSE" THEN amount
               ELSE 0 - amount),
          Line(sp.entry_point,
               IF accounts[sp.entry_point].kind = "INCOME" THEN amount
               ELSE 0 - amount),
          Line(sp.target.account, amount) }

PostingLines(p) ==
    {Line(p.source.account, 0 - p.source.amount)}
       \cup UNION {SplitLines(p.splits[i]) : i \in 1..Len(p.splits)}

\* C6: register_split_transaction with a valid posting of k splits with exit
\* and entry points between 3k+1 different accounts succeeds, and its
\* transaction has exactly 3k+1 ledger entries: -source.amount on the
\* source account and, per split, the signed split amount on the exit
\* point, on the entry point and on the target account.
C6_SplitLedgerEntries ==
    (last.op = "register_split_transaction" /\ ValidSplitPosting(last.arg))
       => /\ last.status = "ok"
          /\ Cardinality(EntryRows(last.value)) = 3 * Len(last.arg.splits) + 1
          /\ EntryLines(last.value) = PostingLines(last.arg)

\* C7: register_transaction ends as register_split_transaction would for the
\* same source flow and the single split (both accept or both reject, and
\* accepted they leave the same splits and ledger entries); with four
\* different accounts of a valid posting it is accepted and leaves exactly
\* the four entries of the source, exit point, entry point and target.
C7_SingleSplitEquivalence ==
    [][ (last'.op = "register_transaction"
           /\ last'.arg.splits[1].exit_point # 0
           /\ last'.arg.splits[1].entry_point # 0)
           => LET r == register_split_transaction(
                           last'.arg.source, last'.arg.splits, St, accounts)
              IN  /\ (last'.status = "ok") <=> (r.status = "ok")
                  /\ (last'.status = "ok") =>
                        /\ Len(transactions') = Len(r.st.transactions)
                        /\ [i \in 1..Len(entries') |->
                               Line(entries'[i].account, entries'[i].amount)]
                           = [i \in 1..Len(r.st.entries) |->
                               Line(r.st.entries[i].account,
                                    r.st.entries[i].amount)]
                  /\ ValidSplitPosting(last'.arg) =>
                        /\ last'.status = "ok"
                        /\ Cardinality({i \in 1..Len(entries') :
                               entries'[i].transaction = last'.value}) = 4
                        /\ {Line(entries'[i].account, entries'[i].amount) :
                               i \in {j \in 1..Len(entries') :
                                         entries'[j].transaction = last'.value}}
                           = PostingLines(last'.arg) ]_vars

\* a posting between two different stock accounts of one system, neither a
\* placeholder
ValidSimplePosting(p) ==
    /\ p.source.account # p.splits[1].target.account
    /\ is_stock(accounts[p.source.account])
    /\ is_stock(accounts[p.splits[1].target.account])
    /\ accounts[p.source.account].system
          = accounts[p.splits[1].target.account].system
    /\ ~HasPlaceholder(p)

\* C8: register_simple_transaction(A, B, amount) between two different stock
\* accounts of one system, neither a placeholder, succeeds and writes
\* exactly two entries, -amount on A and +amount on B; an entry that is the
\* only one of its ledger has entry_id 1, and the balances read then are
\* the sums of the two ledgers.
C8_SimpleTwoEntries ==
    (last.op = "register_simple_transaction" /\ ValidSimplePosting(last.arg))
       => /\ last.status = "ok"
          /\ Cardinality(EntryRows(last.value)) = 2
          /\ EntryLines(last.value)
                = { Line(last.arg.source.account, 0 - last.arg.source.amount),
                    Line(last.arg.splits[1].target.account,
                         last.arg.source.amount) }
          /\ \A i \in EntryRows(last.value) :
                /\ ledger_entries(entries[i].account, entries) = {i}
                      => entries[i].entry_id = 1
                /\ Account_balance(entries[i].account, Unset, entries)
                      = LedgerSum(entries[i].account, entries)

(***************************************************************************)
(* Properties of the root of a system (SpecPath).                          *)
(***************************************************************************)
\* C11: a read of system.root returns an account of the system that has no
\* parent whenever the system has one, and fails with MalformedAccountTree
\* only when it has none.
C11_RootFound ==
    (last.op = "root") =>
       IF RootsOf(last.arg, accounts) # {}
       THEN last.status = "ok" /\ last.value \in RootsOf(last.arg, accounts)
       ELSE last.status = "MalformedAccountTree"

\* C12: add_root_account() on a system without root succeeds and adds
\* exactly one account, with no parent, the empty name, type ROOT and
\* is_placeholder set; on a system with a root it fails with the
\* already-exists error and leaves the accounts as they were.
C12_AddRootAccount ==
    [][ (last'.op = "add_root_account") =>
           IF RootsOf(last'.arg[1], accounts) = {}
           THEN /\ last'.status = "ok"
                /\ accounts' = Append(accounts,
                       NewAccount(last'.arg[1], 0, <<>>, "ROOT", TRUE))
           ELSE /\ last'.status \in {"ValueError", "InvalidAccountingOperation"}
                /\ accounts' = accounts ]_vars

(***************************************************************************)
(* SpecTree: the accounts of one system are created, added and moved.      *)
(***************************************************************************)
TreeNames == {<<>>, <<"a">>, <<"b">>}
TreeKinds == {"ROOT", "ASSET", "EXPENSE"}
TreeParents == {<<"/">>, <<"/", "a">>}

NextTree ==
    \/ /\ Idle
       /\ \E s \in PathSystems, p \in 0..Len(accounts), n \in TreeNames,
             k \in TreeKinds :
             ObjectsCreate(s, p, n, k, k = "ROOT")
    \/ /\ Idle
       /\ \E self \in 1..Len(accounts), s \in PathSystems, n \in TreeNames,
             k \in TreeKinds :
             AddChild(self, 0, NewAccount(s, 0, n, k, k = "ROOT"))
    \/ /\ Idle
       /\ \E self \in 1..Len(accounts), pk \in 1..Len(accounts) :
             AddChild(self, pk, accounts[pk])
    \/ /\ Idle
       /\ \E s \in PathSystems, pp \in TreeParents, n \in TreeNames,
             k \in TreeKinds :
             AddAccount(s, pp, n, k, FALSE)
    \/ Return

SpecTree == InitEmpty /\ [][NextTree]_vars

(***************************************************************************)
(* Properties of the shape of the tree (SpecTree).                         *)
(***************************************************************************)
\* the accounts of system s at a path of the forms "/" and "/n"
AccountsAt(s, path) ==
    IF path = <<ACCOUNT_PATH_SEPARATOR>> THEN RootsOf(s, accounts)
    ELSE {a \in 1..Len(accounts) :
             /\ accounts[a].parent \in RootsOf(s, accounts)
             /\ <<ACCOUNT_PATH_SEPARATOR>> \o accounts[a].name = path}

\* the accounts under which the call recorded in c adds an account, and the
\* name and the type it gives it
AddParents(c) ==
    IF c.op = "create" THEN {c.arg.parent} \ {0}
    ELSE IF c.op = "add_child" THEN {c.arg[1]}
    ELSE IF c.op = "add_account" THEN AccountsAt(c.arg[1], strip(c.arg[2]))
    ELSE {}

AddName(c) ==
    IF c.op = "create" THEN c.arg.name
    ELSE IF c.op = "add_child" THEN c.arg[3].name
    ELSE c.arg[3]

AddKind(c) ==
    IF c.op = "create" THEN c.arg.kind
    ELSE IF c.op = "add_child" THEN c.arg[3].kind
    ELSE c.arg[4]

AlreadyExists == {"ValueError", "InvalidAccountingOperation"}

\* C13: no two accounts with the same parent have the same name, and an
\* add_account or add_child under a parent that has a child of the given
\* name, once the root of the system was found, fails with the
\* already-exists error and leaves the accounts as they were.
C13_SiblingNames ==
    [][ /\ \A i, j \in 1..Len(accounts') :
              (i # j /\ accounts'[i].parent # 0
                 /\ accounts'[i].parent = accounts'[j].parent)
                 => accounts'[i].name # accounts'[j].name
        /\ (last'.op \in {"add_account", "add_child"}
              /\ last'.status # "MalformedAccountTree"
              /\ \E p \in AddParents(last'), i \in 1..Len(accounts) :
                    accounts[i].parent = p /\ accounts[i].name = AddName(last'))
              => /\ last'.status \in AlreadyExists
                 /\ accounts' = accounts ]_vars

\* the type k must not go under the account p
Mixing(k, p) ==
    \/ kind_is_stock(k) /\ is_flux(accounts[p])
    \/ kind_is_flux(k) /\ is_stock(accounts[p])

C15_CashFlowStock ==
    /\ \A i \in 1..Len(cashflows) : is_stock(accounts[cashflows[i].account])
    /\ (last.op = "cashflow_create") =>
          IF is_stock(accounts[last.arg.account])
          THEN last.status = "ok"
          ELSE last.status = "ValidationError"

\* a split meets the rules of Split
WellFormedSplit(sp) ==
    /\ (sp.exit_point = 0) <=> (sp.entry_point = 0)
    /\ sp.exit_point # 0 =>
          /\ is_flux(accounts[sp.exit_point])
          /\ is_flux(accounts[sp.entry_point])
          /\ is_stock(accounts[sp.target.account])
          /\ accounts[sp.entry_point].system
                = accounts[sp.target.account].system

\* C16: every stored split is well formed; creating a split with exactly one
\* of exit point and entry point null is refused with a validation error,
\* and creating one with both null and a stored, stock-like target succeeds.
C16_SplitWellFormed ==
    /\ \A i \in 1..Len(splits) : WellFormedSplit(splits[i])
    /\ (last.op = "split_create") =>
          /\ ((last.arg.exit_point = 0) # (last.arg.entry_point = 0))
                => last.status = "ValidationError"
          /\ (last.arg.exit_point = 0 /\ last.arg.entry_point = 0
                /\ last.arg.target.pk # 0
                /\ is_stock(accounts[last.arg.target.account]))
                => last.status = "ok"

\* the exit points and the targets of the internal splits are in the system
\* of the source account, split by split
TreeConsistent(source, split_set) ==
    \A i \in 1..Len(split_set) :
       IF split_set[i].exit_point # 0
       THEN accounts[split_set[i].exit_point].system
               = accounts[source.account].system
       ELSE accounts[split_set[i].target.account].system
               = accounts[source.account].system

\* C17: in every transaction recorded, each exit point and the target of
\* each internal split are in the system of the source account (split by
\* split, also next to splits that are not internal), and a posting that
\* breaks this is rejected and records nothing.
C17_TreeConsistency ==
    [][ /\ \A t \in 1..Len(transactions') :
              TreeConsistent(transactions'[t].source, transactions'[t].split_set)
        /\ (last'.op \in RegisterOps
              /\ ~TreeConsistent(last'.arg.source, last'.arg.splits))
              => /\ last'.status # "ok"
                 /\ transactions' = transactions
                 /\ entries' = entries ]_vars

\* a posting with an internal split whose target is in another system than
\* the source, next to a split that is not internal, was rejected
C17_Witness ==
    /\ last.op = "register_split_transaction"
    /\ last.status # "ok"
    /\ Len(last.arg.splits) = 2
    /\ last.arg.splits[1].exit_point # 0
    /\ last.arg.splits[2].exit_point = 0
    /\ accounts[last.arg.splits[2].target.account].system
          # accounts[last.arg.source.account].system
    /\ transactions = <<>>

\* C19: register_transaction with a null exit point or a null entry point
\* fails with MalformedTransaction and leaves no transaction, cash flow,
\* split or ledger entry behind.
C19_NullPointsRejected ==
    (last.op = "register_transaction"
       /\ (last.arg.splits[1].exit_point = 0 \/ last.arg.splits[1].entry_point = 0))
       => /\ last.status = "MalformedTransaction"
          /\ transactions = <<>> /\ cashflows = <<>>
          /\ splits = <<>> /\ entries = <<>>

(***************************************************************************)
(* SpecStored: confirm() and update_transaction() of stored transactions.  *)
(* No call of utils.py or of save() stores a transaction, so the rows the  *)
(* two operations start from are rows of a populated database, as a        *)
(* fixture load writes them (it saves each row without calling the         *)
(* save() of the model).                                                   *)
(***************************************************************************)
\* The rows of one posting, added to the tables st: its cash flows, its
\* splits, its transaction and the ledger entries that
\* register_split_transaction lists for it, numbered per ledger
StoredPosting(p, confirmed, st, accts) ==
    LET c0 == Len(st.cashflows)
        source == [p.source EXCEPT !.pk = c0 + 1]
        split_set == [i \in 1..Len(p.splits) |->
                         [p.splits[i] EXCEPT !.pk = Len(st.splits) + i,
                                             !.target.pk = c0 + 1 + i]]
        t == Len(st.transactions) + 1
        writes == << Write(source.account, 0 - source.amount) >>
                     \o AllSplitWrites(split_set, accts)
        e0 == Len(st.entries)
        EntryId(i) ==
            Cardinality(ledger_entries(writes[i].account, st.entries))
               + Cardinality({j \in 1..(i - 1) : writes[j].account = writes[i].account})
               + 1
    IN  [cashflows |-> st.cashflows \o <<source>> \o Targets(split_set),
         splits |-> st.splits \o split_set,
         transactions |->
             Append(st.transactions,
                    [pk |-> t, source |-> source, split_set |-> split_set,
                     is_confirmed |-> confirmed]),
         entries |->
             st.entries \o
                [i \in 1..Len(writes) |->
                    [id |-> e0 + i, account |-> writes[i].account,
                     transaction |-> t, entry_id |-> EntryId(i),
                     amount |-> writes[i].amount]]]

RECURSIVE StoredAll(_, _, _)
StoredAll(ps, st, accts) ==
    IF ps = <<>> THEN st
    ELSE StoredAll(Tail(ps),
                   StoredPosting(Head(ps).posting, Head(ps).is_confirmed, st, accts),
                   accts)

\* The postings stored: one without splits, a simple one, an internal split
\* one, one through an exit and an entry point, and a split one through two
\* of each
StoredPostings ==
    { Posting(CashFlowOf(0, 9, 0), << >>),
      Posting(CashFlowOf(0, 9, 1), << SplitOf(0, 0, 0, CashFlowOf(0, 10, 0 - 1)) >>),
      Posting(CashFlowOf(0, 9, 2),
              << SplitOf(0, 0, 0, CashFlowOf(0, 10, 0 - 1)),
                 SplitOf(0, 0, 0, CashFlowOf(0, 10, 0 - 1)) >>),
      Posting(CashFlowOf(0, 2, 1), << SplitOf(0, 3, 7, CashFlowOf(0, 9, 0 - 1)) >>),
      Posting(CashFlowOf(0, 2, 2),
              << SplitOf(0, 3, 7, CashFlowOf(0, 9, 0 - 1)),
                 SplitOf(0, 4, 8, CashFlowOf(0, 10, 0 - 1)) >>) }

StoredRows ==
    [posting : StoredPostings, is_confirmed : BOOLEAN]

StoredLists ==
    UNION {[1..n -> StoredRows] : n \in 1..MaxTransactions}

EmptyTables ==
    [cashflows |-> <<>>, splits |-> <<>>, transactions |-> <<>>, entries |-> <<>>]

InitStored ==
    /\ accounts = CreateAll(PostSetup, <<>>)
    /\ rootCache = [s \in Systems |-> 0]
    /\ \E ps \in StoredLists :
          LET st == StoredAll(ps, EmptyTables, accounts)
          IN  /\ cashflows = st.cashflows
              /\ splits = st.splits
              /\ transactions = st.transactions
              /\ entries = st.entries
    /\ balanceCache = <<>>
    /\ saving = NoSave
    /\ last = NoCall

\* What a deleted row leaves at its place in a table: an entry that is in
\* no ledger any more (it has no transaction), a transaction without primary
\* key
DeletedEntry(e) == [e EXCEPT !.transaction = 0]
DeletedTransaction ==
    [pk |-> 0, source |-> CashFlowOf(0, 0, 0), split_set |-> <<>>,
     is_confirmed |-> FALSE]

\* The transactions stored
Stored == {t \in 1..Len(transactions) : transactions[t].pk # 0}

\* Transaction.splits of the instance tx: self.split_set.all(); the
\* many-to-many manager of an instance without a primary key cannot be
\* built and the read raises ValueError
Transaction_splits(tx) ==
    IF tx.pk = 0 THEN Raise("ValueError") ELSE Ok(tx.split_set)

\* Transaction.confirm() of the instance tx
Transaction_confirm(tx, st, accts) ==
    IF ~tx.is_confirmed
    THEN Transaction_save([tx EXCEPT !.is_confirmed = TRUE], st, accts)
    ELSE Result("InvalidAccountingOperation", 0, st)

\* update_transaction(transaction, amount=) of the instance loaded from row
\* t.  The entries and the row are deleted first, and delete() clears the
\* primary key of the instance; the branches then read the splits of that
\* instance.
update_transaction(t, kwargs, st, accts) ==
    LET transaction == [st.transactions[t] EXCEPT !.pk = 0]
        deleted ==
            [st EXCEPT
               !.entries = [i \in 1..Len(st.entries) |->
                               IF st.entries[i].transaction = t
                               THEN DeletedEntry(st.entries[i]) ELSE st.entries[i]],
               !.transactions[t] = DeletedTransaction]
        orig_splits == Transaction_splits(transaction)
        source == transaction.source
        amount == IF kwargs.set THEN kwargs.value ELSE source.amount
    IN  IF orig_splits.status # "ok" THEN Result(orig_splits.status, 0, deleted)
        ELSE IF Transaction_is_simple(orig_splits.value)
        THEN register_simple_transaction(
                 source.account, orig_splits.value[1].target.account, amount,
                 deleted, accts)
        ELSE IF Transaction_is_internal(orig_splits.value)
        THEN register_internal_transaction(
                 source, Targets(orig_splits.value), deleted, accts)
        ELSE IF ~Transaction_is_split(orig_splits.value)
        THEN register_transaction(
                 source.account, orig_splits.value[1].exit_point,
                 orig_splits.value[1].entry_point,
                 orig_splits.value[1].target.account, amount, deleted, accts)
        ELSE register_split_transaction(source, orig_splits.value, deleted, accts)

\* Transaction.objects.get(pk=t).confirm()
Confirm(t) ==
    /\ t \in Stored
    /\ LET r == Transaction_confirm(transactions[t], St, accounts)
       IN  /\ Commit(r.st)
           /\ last' = Call("confirm", r.status, r.value, transactions[t])
    /\ TreeUnchanged
    /\ UNCHANGED balanceCache

\* update_transaction(Transaction.objects.get(pk=t), amount=kwargs)
UpdateTransaction(t, kwargs) ==
    /\ t \in Stored
    /\ LET r == update_transaction(t, kwargs, St, accounts)
       IN  /\ Commit(r.st)
           /\ last' = Call("update_transaction", r.status, r.value,
                           [transaction |-> transactions[t], amount |-> kwargs])
    /\ TreeUnchanged
    /\ UNCHANGED balanceCache

\* transaction.is_split, is_internal, is_simple of the instance tx
Transaction_shape(tx) ==
    LET s == Transaction_splits(tx)
    IN  IF s.status # "ok" THEN s
        ELSE Ok([is_split |-> Transaction_is_split(s.value),
                 is_internal |-> Transaction_is_internal(s.value),
                 is_simple |-> Transaction_is_simple(s.value)])

\* Split.accounts
Split_accounts(sp) == <<sp.exit_point, sp.entry_point, sp.target.account>>

\* the first split of the list whose accounts contain a; None (0) if the
\* loop ends without a return
RECURSIVE FirstSplitWith(_, _)
FirstSplitWith(a, split_set) ==
    IF split_set = <<>> THEN 0
    ELSE IF \E i \in 1..3 : Split_accounts(Head(split_set))[i] = a
    THEN Head(split_set).pk
    ELSE FirstSplitWith(a, Tail(split_set))

\* LedgerEntry.split of the entry e: the value is the primary key of the
\* split returned
LedgerEntry_split(e, st) ==
    LET tx == st.transactions[e.transaction]
        s == Transaction_splits(tx)
    IN  IF s.status # "ok" THEN s
        ELSE IF ~Transaction_is_split(s.value)
        THEN IF s.value = <<>> THEN Raise("IndexError") ELSE Ok(s.value[1].pk)
        ELSE IF e.account = tx.source.account THEN Raise("AttributeError")
        ELSE Ok(FirstSplitWith(e.account, s.value))

\* is_split, is_internal, is_simple of Transaction.objects.get(pk=t)
ReadShape(t) ==
    /\ t \in Stored
    /\ LET r == Transaction_shape(transactions[t])
       IN  last' = Call("shape", r.status, r.value, t)
    /\ TreeUnchanged
    /\ UNCHANGED <<cashflows, splits, transactions, entries, balanceCache>>

\* LedgerEntry.objects.get(pk=i).split
ReadEntrySplit(i) ==
    /\ i \in 1..Len(entries)
    /\ entries[i].transaction # 0
    /\ LET r == LedgerEntry_split(entries[i], St)
       IN  last' = Call("entry_split", r.status, r.value, i)
    /\ TreeUnchanged
    /\ UNCHANGED <<cashflows, splits, transactions, entries, balanceCache>>

\* The amount update_transaction is asked to change to, if any
Overrides == {Unset} \cup {SetTo(m) : m \in Amounts}

NextStored ==
    \/ /\ Idle
       /\ \E t \in 1..MaxTransactions : Confirm(t)
    \/ /\ Idle
       /\ \E t \in 1..MaxTransactions, kwargs \in Overrides :
             UpdateTransaction(t, kwargs)
    \/ /\ Idle
       /\ \E a \in BalanceAccounts : ReadBalance(a)
    \/ /\ Idle
       /\ \E a \in BalanceAccounts : NextEntryId(a)
    \/ /\ Idle
       /\ \E t \in 1..MaxTransactions : ReadShape(t)
    \/ /\ Idle
       /\ \E i \in 1..Len(entries) : ReadEntrySplit(i)
    \/ Return

SpecStored == InitStored /\ [][NextStored]_vars

UpdatedLines(p) ==
    {Line(p.source.account, 0 - p.source.amount)}
       \cup UNION {IF p.splits[i].exit_point = 0
                   THEN {Line(p.splits[i].target.account, 0 - p.splits[i].target.amount)}
                   ELSE SplitLines(p.splits[i]) : i \in 1..Len(p.splits)}

SaveRead(p, a, t, amount) ==
    /\ saving[p].pc = "idle"
    /\ t \in Stored
    /\ Len(entries) < MaxEntries
    /\ LET n == next_entry_id_for_ledger(a, entries)
           arg == [account |-> a, transaction |-> t, amount |-> amount]
       IN  IF n.status # "ok"
           THEN /\ saving' = saving
                /\ last' = Call("entry_create", n.status, 0, arg)
           ELSE /\ saving' = [saving EXCEPT ![p] =
                                 [pc |-> "insert", account |-> a,
                                  transaction |-> t, amount |-> amount,
                                  entry_id |-> n.value]]
                /\ last' = last
    /\ UNCHANGED <<accounts, rootCache, cashflows, splits, transactions,
                   entries, balanceCache>>

\* the rest of the save() of process p: full_clean(), which finds the
\* transaction of the entry or fails, and the insert of the row
SaveInsert(p) ==
    /\ saving[p].pc = "insert"
    /\ LET e == saving[p]
           arg == [account |-> e.account, transaction |-> e.transaction,
                   amount |-> e.amount]
       IN  IF e.transaction \notin Stored
           THEN /\ entries' = entries
                /\ last' = Call("entry_create", "ValidationError", 0, arg)
           ELSE /\ entries' = Append(entries,
                                  [id |-> Len(entries) + 1, account |-> e.account,
                                   transaction |-> e.transaction,
                                   entry_id |-> e.entry_id, amount |-> e.amount])
                /\ last' = Call("entry_create", "ok", Len(entries) + 1, arg)
    /\ saving' = [saving EXCEPT ![p] = NotSaving]
    /\ UNCHANGED <<accounts, rootCache, cashflows, splits, transactions,
                   balanceCache>>

NextLedger ==
    \/ /\ Idle
       /\ \E p \in Procs, a \in BalanceAccounts, t \in 1..MaxTransactions :
             SaveRead(p, a, t, 1)
    \/ \E p \in Procs : SaveInsert(p)
    \/ Return

SpecLedger == InitStored /\ [][NextLedger]_vars

\* the entries that are in a ledger
LiveEntries == {i \in 1..Len(entries) : entries[i].transaction # 0}

NextReuse ==
    \/ /\ Idle
       /\ \E a \in BalanceAccounts, t \in 1..MaxTransactions : SaveRead(1, a, t, 1)
    \/ SaveInsert(1)
    \/ /\ Idle
       /\ \A p \in Procs : saving[p].pc = "idle"
       /\ \E t \in 1..MaxTransactions : UpdateTransaction(t, Unset)
    \/ Return

SpecReuse == InitStored /\ [][NextReuse]_vars

RECURSIVE ReachesRoot(_, _)
ReachesRoot(a, n) ==
    IF accounts[a].parent = 0 THEN TRUE
    ELSE IF n = 0 THEN FALSE
    ELSE ReachesRoot(accounts[a].parent, n - 1)

\* C27: the parent relation is acyclic and every account reaches a root by
\* following parent links, whatever accounts add_child was given.
C27_ParentsAcyclic ==
    \A a \in 1..Len(accounts) : ReachesRoot(a, Len(accounts))

TxAmountOn(t, a, ents) ==
    SumAmounts([i \in 1..Len(ents) |->
                   [amount |-> IF ents[i].transaction = t /\ ents[i].account = a
                               THEN ents[i].amount ELSE 0]])

\* what a split says: exit point, entry point, target account and amount
SplitSays(sp) ==
    <<sp.exit_point, sp.entry_point, sp.target.account, sp.target.amount>>

Posted == last.op \in RegisterOps /\ last.status = "ok"

\* AccountSystem.total_amount of system s: the balances, summed from the
\* ledgers, of the stock-like accounts of the system
RECURSIVE SumOver(_, _)
SumOver(S, ents) ==
    IF S = {} THEN 0
    ELSE LET a == CHOOSE x \in S : TRUE
         IN  LedgerSum(a, ents) + SumOver(S \ {a}, ents)

AccountSystem_total_amount(s, ents) ==
    SumOver({a \in 1..Len(accounts) :
                accounts[a].system = s /\ is_stock(accounts[a])}, ents)

\* C23: a transaction posted by a register_* function has at least 2 and at
\* most 3k+1 ledger entries, k being the number of its splits.
C23_EntryCount ==
    Posted =>
       /\ Cardinality(EntryRows(last.value)) >= 2
       /\ Cardinality(EntryRows(last.value)) <= 3 * Len(last.arg.splits) + 1

\* C26: a register_simple_transaction or register_internal_transaction that
\* returns a transaction leaves total_amount of the system of the source
\* account as it was and changes no ledger of another system.
C26_TotalAmountKept ==
    [][ (last'.op \in {"register_simple_transaction", "register_internal_transaction"}
           /\ last'.status = "ok") =>
          LET s == accounts[last'.arg.source.account].system
          IN  /\ AccountSystem_total_amount(s, entries')
                    = AccountSystem_total_amount(s, entries)
              /\ \A a \in 1..Len(accounts) :
                    accounts[a].system # s
                       => LedgerSum(a, entries') = LedgerSum(a, entries) ]_vars

\* C28: a transaction has at most one ledger entry on an account, also when
\* the account occurs more than once in the posting.
C28_OneEntryPerAccount ==
    Posted =>
       \A i, j \in EntryRows(last.value) :
          entries[i].account = entries[j].account => i = j

=============================================================================
